---- MODULE Spec2Model ----
(***************************************************************************)
(* A model of VinaScreen.py: the batch docking loop (open the results      *)
(* table, discover ligands, run vina once per ligand, extract the best     *)
(* affinity, commit one row per ligand) and the grid-box prompt.           *)
(*                                                                         *)
(* Texts (file names, tool output, operator input, table cells) are        *)
(* sequences of one-character strings, so that the string operations of    *)
(* the script (endswith, in, splitext, strip, re.search, float, str) are   *)
(* computed character by character.                                        *)
(***************************************************************************)
EXTENDS Integers, Sequences, FiniteSets, TLC

(***************************************************************************)
(* Bounds of the model.                                                    *)
(***************************************************************************)
MaxEntries == 2    \* directory entries returned by os.listdir
MaxLen == 5        \* length of a tool output text in SpecExtract
MaxRetries == 2    \* rejected inputs at one grid prompt

(***************************************************************************)
(* Module constants of the script.                                         *)
(***************************************************************************)
RECEPTOR == "receptor.pdbqt"
DOCKING_DIR == <<".", "/", "l", "i", "g", "a", "n", "d", "s">>
OUTPUT_DIR == <<".", "/", "d", "o", "c", "k", "e", "d", "_", "l", "i", "g", "a", "n", "d", "s">>
CONSOLE_OUTPUT == "docking_console_output.txt"
OUTPUT_CSV == "docking_scores.csv"
DEBUG_LOG == "debug_log.txt"

PdbqtExt == <<".", "p", "d", "b", "q", "t">>
DockedMark == <<"_", "d", "o", "c", "k", "e", "d">>
NA == <<"N", "/", "A">>
ErrorMark == <<"E", "r", "r", "o", "r">>
Header == << <<"L", "i", "g", "a", "n", "d">>,
            <<"B", "e", "s", "t", " ", "A", "f", "f", "i", "n", "i", "t", "y">> >>

(***************************************************************************)
(* String operations.                                                      *)
(***************************************************************************)
\* str.endswith
EndsWith(s, suf) ==
    /\ Len(s) >= Len(suf)
    /\ SubSeq(s, Len(s) - Len(suf) + 1, Len(s)) = suf

\* the `in` operator on strings: sub occurs in s at some offset
Contains(s, sub) ==
    \E k \in 0..(Len(s) - Len(sub)) : SubSeq(s, k + 1, k + Len(sub)) = sub

\* str.rfind of one character: the last index holding c, 0 when there is none
RECURSIVE RFind(_, _, _)
RFind(s, c, k) ==
    IF k = 0 THEN 0
    ELSE IF s[k] = c THEN k
    ELSE RFind(s, c, k - 1)

\* os.path.splitext(p)[0] for a name without a path separator: the extension
\* starts at the last dot, unless only dots precede it
SplitExtRoot(p) ==
    LET dotIndex == RFind(p, ".", Len(p))
    IN  IF dotIndex > 0 /\ \E k \in 1..(dotIndex - 1) : p[k] # "."
        THEN SubSeq(p, 1, dotIndex - 1)
        ELSE p

\* os.path.join(dir, name) for a relative name
PathJoin(dir, name) == dir \o <<"/">> \o name

\* the filter without its second test: docked outputs are taken as ligands
IsLigandFileNoMark(ligand) == EndsWith(ligand, PdbqtExt)

\* the work discovery filter of the batch loop
IsLigandFile(ligand) ==
    EndsWith(ligand, PdbqtExt) /\ ~Contains(ligand, DockedMark)

(***************************************************************************)
(* Characters.                                                             *)
(***************************************************************************)
Digits == <<"0", "1", "2", "3", "4", "5", "6", "7", "8", "9">>

IsDigit(c) == \E d \in 1..10 : Digits[d] = c

DigitVal(c) == (CHOOSE d \in 1..10 : Digits[d] = c) - 1

\* \s of the re module, and the characters str.strip removes
IsSpace(c) == c \in {" ", "\t", "\n", "\r", "\f"}

\* the character class [-\d.] of the score pattern
InScoreClass(c) == c = "-" \/ IsDigit(c) \/ c = "."

\* str.lower on the letters of nan, inf and infinity
Lower(c) ==
    CASE c = "A" -> "a" [] c = "F" -> "f" [] c = "I" -> "i"
      [] c = "N" -> "n" [] c = "T" -> "t" [] c = "Y" -> "y"
      [] c = "E" -> "e" [] OTHER -> c

LowerSeq(s) == [k \in 1..Len(s) |-> Lower(s[k])]

\* the index after the longest run of whitespace that starts at k (greedy \s*)
SpaceRunEnd(s, k) ==
    CHOOSE j \in k..(Len(s) + 1) :
        /\ \A m \in k..(j - 1) : IsSpace(s[m])
        /\ j = Len(s) + 1 \/ ~IsSpace(s[j])

\* the index after the longest run of [-\d.] that starts at k (greedy [-\d.]+)
ScoreRunEnd(s, k) ==
    CHOOSE j \in k..(Len(s) + 1) :
        /\ \A m \in k..(j - 1) : InScoreClass(s[m])
        /\ j = Len(s) + 1 \/ ~InScoreClass(s[j])

\* str.strip
Strip(s) ==
    LET a == SpaceRunEnd(s, 1)
        b == CHOOSE j \in (a - 1)..Len(s) :
                 /\ \A m \in (j + 1)..Len(s) : IsSpace(s[m])
                 /\ j = a - 1 \/ ~IsSpace(s[j])
    IN  SubSeq(s, a, b)

(***************************************************************************)
(* Numbers.  A float is nan, an infinity, or the finite value              *)
(* (-1)^neg * mant * 10^(-exp), kept normalised (mant has no trailing      *)
(* zero digit; zero has exp 0) so that equal numbers are equal records.    *)
(* The model covers decimal texts of at most 9 significant digits, which   *)
(* a double reads and prints back exactly.                                 *)
(***************************************************************************)
RECURSIVE DigitsVal(_)
DigitsVal(ds) ==
    IF ds = <<>> THEN 0
    ELSE 10 * DigitsVal(SubSeq(ds, 1, Len(ds) - 1)) + DigitVal(ds[Len(ds)])

RECURSIVE NatStr(_)
NatStr(n) ==
    IF n < 10 THEN <<Digits[n + 1]>>
    ELSE Append(NatStr(n \div 10), Digits[(n % 10) + 1])

Zeros(n) == [k \in 1..n |-> "0"]

ValueError == [kind |-> "ValueError"]
NaN == [kind |-> "nan"]
Inf(neg) == [kind |-> "inf", neg |-> neg]

RECURSIVE Normalise(_, _, _)
Normalise(neg, mant, exp) ==
    IF mant = 0 THEN [kind |-> "fin", neg |-> neg, mant |-> 0, exp |-> 0]
    ELSE IF mant % 10 = 0 THEN Normalise(neg, mant \div 10, exp - 1)
    ELSE [kind |-> "fin", neg |-> neg, mant |-> mant, exp |-> exp]

\* the largest and smallest decimal exponents of a double
MaxDecPt == 309
MinDecPt == -323

\* digits [. [digits]] | . digits, then an optional exponent e [sign] digits
ParseNumber(neg, body) ==
    LET epos == IF \E k \in 1..Len(body) : Lower(body[k]) = "e"
                THEN CHOOSE k \in 1..Len(body) :
                         /\ Lower(body[k]) = "e"
                         /\ \A m \in 1..(k - 1) : Lower(body[m]) # "e"
                ELSE 0
        m == IF epos = 0 THEN body ELSE SubSeq(body, 1, epos - 1)
        x == IF epos = 0 THEN <<>> ELSE SubSeq(body, epos + 1, Len(body))
        xneg == x # <<>> /\ x[1] = "-"
        xd == IF x # <<>> /\ x[1] \in {"+", "-"} THEN Tail(x) ELSE x
        dots == {k \in 1..Len(m) : m[k] = "."}
        dot == IF dots = {} THEN Len(m) + 1 ELSE CHOOSE k \in dots : TRUE
        int == SubSeq(m, 1, dot - 1)
        frac == SubSeq(m, dot + 1, Len(m))
        mOk == /\ \A k \in 1..Len(m) : IsDigit(m[k]) \/ m[k] = "."
               /\ Cardinality(dots) <= 1
               /\ Len(int) + Len(frac) >= 1
        xOk == epos = 0 \/ (xd # <<>> /\ \A k \in 1..Len(xd) : IsDigit(xd[k]))
    IN  IF ~(mOk /\ xOk) THEN ValueError
        ELSE LET mant == DigitsVal(int \o frac)
                 e10 == IF xneg THEN -DigitsVal(xd) ELSE DigitsVal(xd)
                 v == Normalise(neg, mant, Len(frac) - e10)
                 decpt == Len(NatStr(v.mant)) - v.exp
             IN  IF v.mant = 0 THEN v
                 ELSE IF decpt > MaxDecPt THEN Inf(neg)
                 ELSE IF decpt < MinDecPt THEN Normalise(neg, 0, 0)
                 ELSE v

\* float(s) of a str: ValueError, or the number s denotes
ParseFloat(s) ==
    LET t == Strip(s)
        neg == t # <<>> /\ t[1] = "-"
        body == IF t # <<>> /\ t[1] \in {"+", "-"} THEN Tail(t) ELSE t
        low == LowerSeq(body)
    IN  IF low = <<"n", "a", "n">> THEN NaN
        ELSE IF low = <<"i", "n", "f">>
                \/ low = <<"i", "n", "f", "i", "n", "i", "t", "y">> THEN Inf(neg)
        ELSE ParseNumber(neg, body)

\* repr of a float, which str(float) and csv.writer use
FloatStr(v) ==
    IF v.kind = "nan" THEN <<"n", "a", "n">>
    ELSE LET sign == IF v.neg THEN <<"-">> ELSE <<>>
         IN  IF v.kind = "inf" THEN sign \o <<"i", "n", "f">>
             ELSE IF v.mant = 0 THEN sign \o <<"0", ".", "0">>
             ELSE LET ds == NatStr(v.mant)
                      n == Len(ds)
                      decpt == n - v.exp
                      e == decpt - 1
                      ed == NatStr(IF e < 0 THEN -e ELSE e)
                  IN  IF decpt < -3 \/ decpt > 16
                      THEN sign \o <<ds[1]>>
                           \o (IF n > 1 THEN <<".">> \o Tail(ds) ELSE <<>>)
                           \o <<"e", IF e < 0 THEN "-" ELSE "+">>
                           \o (IF Len(ed) < 2 THEN <<"0">> ELSE <<>>) \o ed
                      ELSE IF decpt <= 0
                      THEN sign \o <<"0", ".">> \o Zeros(-decpt) \o ds
                      ELSE IF decpt >= n
                      THEN sign \o ds \o Zeros(decpt - n) \o <<".", "0">>
                      ELSE sign \o SubSeq(ds, 1, decpt) \o <<".">>
                           \o SubSeq(ds, decpt + 1, n)

(***************************************************************************)
(* re.search(r'^\s*1\s+([-\d.]+)', text, re.MULTILINE).  The three         *)
(* classes \s, 1 and [-\d.] are disjoint, so the greedy match from a       *)
(* position never backtracks; search returns the leftmost position that    *)
(* matches.                                                                *)
(***************************************************************************)
NoMatch == [found |-> FALSE]

\* ^ under re.MULTILINE: the start of the text or just after a newline
AtLineStart(s, p) == p = 1 \/ s[p - 1] = "\n"

\* the match of the pattern at position p, or NoMatch
MatchAt(s, p) ==
    LET a == SpaceRunEnd(s, p)
        b == SpaceRunEnd(s, a + 1)
        c == ScoreRunEnd(s, b)
    IN  IF /\ AtLineStart(s, p)
           /\ a <= Len(s) /\ s[a] = "1"
           /\ b > a + 1
           /\ c > b
        THEN [found |-> TRUE, group1 |-> SubSeq(s, b, c - 1)]
        ELSE NoMatch

ReSearch(s) ==
    LET hits == {p \in 1..Len(s) : MatchAt(s, p).found}
    IN  IF hits = {} THEN NoMatch
        ELSE MatchAt(s, CHOOSE p \in hits : \A q \in hits : p <= q)

(***************************************************************************)
(* The environment of one run: the entries os.listdir may return, what     *)
(* the vina subprocess may answer, and the grid box the operator gave.     *)
(***************************************************************************)
Name_a == <<"a">> \o PdbqtExt
Name_b == <<"b">> \o PdbqtExt
Name_dot == PdbqtExt
Name_a_docked == <<"a">> \o DockedMark \o PdbqtExt
Name_docked_mid == DockedMark \o <<"2">> \o PdbqtExt
Name_txt == <<"n", ".", "t", "x", "t">>
Name_bak == <<"a">> \o PdbqtExt \o <<".", "b", "a", "k">>

EntryNames ==
    {Name_a, Name_b, Name_dot, Name_a_docked, Name_docked_mid, Name_txt, Name_bak}

\* os.listdir: the entries of the directory, each once, in arbitrary order
Listings ==
    {l \in UNION {[1..n -> EntryNames] : n \in 0..MaxEntries} :
        \A j, k \in 1..Len(l) : j # k => l[j] # l[k]}

Out_scored == <<"m", "\n", " ", "1", " ", " ", "-", "7", ".", "4", " ", "0">>
Out_plain == <<"1", " ", "2", "0">>
Out_noscore == <<"m", "\n", "2", " ", "5">>
Out_split == <<"1", "\n", "-", "7">>
Out_dash == <<"1", " ", "-">>
Out_tiny == <<"1", "\t", ".", "0", "0", "0", "0", "1">>
Out_msg == <<"e", "r", "r">>

\* what subprocess.check_output meets: the exit status and the merged
\* stdout/stderr bytes, which may or may not be valid UTF-8
ToolAnswers ==
    [returncode : {0}, output : {Out_scored, Out_plain, Out_tiny, Out_noscore, Out_split, Out_dash},
     utf8 : {TRUE}]
    \cup [returncode : {0}, output : {Out_msg}, utf8 : {FALSE}]
    \cup [returncode : {1, 2}, output : {Out_msg}, utf8 : {TRUE}]
    \cup [returncode : {1}, output : {<<>>}, utf8 : {TRUE}]

Grids ==
    { [k \in 1..6 |-> <<"0", ".", "0">>],
      [k \in 1..6 |-> IF k <= 3 THEN <<"-", "2", ".", "5">> ELSE <<"2", "0", ".", "0">>] }

(***************************************************************************)
(* State.                                                                  *)
(***************************************************************************)
VARIABLES
    pc,            \* the statement the script is about to execute
    dirExists,     \* os.path.isdir(DOCKING_DIR)
    csvOpenable,   \* whether open(OUTPUT_CSV, 'w') succeeds
    listing,       \* what os.listdir(DOCKING_DIR) returns
    grid,          \* center_x .. size_z, as returned by get_grid_coordinate
    idx,           \* entries of listing the for loop has taken
    ligand,        \* the loop variable
    ligand_count,
    vina_output,
    match,
    best_score,
    exc,           \* the exception being handled, if any
    csvBuf,        \* rows in the buffer of csvfile
    csvOs,         \* rows of OUTPUT_CSV the operating system holds
    csvDisk,       \* rows of OUTPUT_CSV on stable storage
    debugLog,      \* lines of DEBUG_LOG
    consoleFile,   \* pieces written to CONSOLE_OUTPUT
    runs,          \* the vina invocations so far: command and answer
    exitStatus,    \* the exit status of the process, once it has ended
    typed,         \* the inputs given at the grid prompt in progress
    answered,      \* whether that prompt has returned
    outDirExists,  \* os.path.exists(OUTPUT_DIR)
    runNo,         \* how many times the script has been started
    priorLog       \* the lines DEBUG_LOG held when this run started

env == <<dirExists, csvOpenable, listing, grid, outDirExists, runNo, priorLog>>
csv == <<csvBuf, csvOs, csvDisk>>
item == <<ligand, vina_output, match, best_score, exc>>
prompt == <<typed, answered>>
vars == <<pc, env, idx, ligand_count, item, csv, debugLog, consoleFile, runs,
          exitStatus, prompt>>

None == [kind |-> "None"]

\* the process has ended with this exit status
Exited(code) == [kind |-> "exited", code |-> code]

\* a formatted text: the fixed part and the named values formatted into it
\* (<<>> when there are none)
Line(msg, args) == [msg |-> msg, args |-> args]

GridLine(g) ==
    Line("Grid box settings: center_x={center_x}, ..., size_z={size_z}",
         [center_x |-> g[1], center_y |-> g[2], center_z |-> g[3],
          size_x |-> g[4], size_y |-> g[5], size_z |-> g[6]])

\* the state when the script reaches the try statement that opens the table
Init ==
    /\ pc = "open_csv"
    /\ dirExists \in BOOLEAN
    /\ csvOpenable \in BOOLEAN
    /\ listing \in (IF dirExists THEN Listings ELSE {<<>>})
    /\ grid \in Grids
    /\ idx = 0
    /\ ligand = <<>>
    /\ ligand_count = 0
    /\ vina_output = <<>>
    /\ match = None
    /\ best_score = None
    /\ exc = None
    /\ csvBuf = <<>>
    /\ csvOs = <<>>
    /\ csvDisk = <<>>
    /\ debugLog = <<GridLine(grid)>>
    /\ consoleFile = <<>>
    /\ runs = <<>>
    /\ exitStatus = None
    /\ typed = <<>>
    /\ answered = TRUE
    /\ outDirExists = TRUE
    /\ runNo = 1
    /\ priorLog = <<>>

(***************************************************************************)
(* File operations.                                                        *)
(***************************************************************************)
\* write_debug(message)
WriteDebug(line) == debugLog' = Append(debugLog, line)

\* csv_writer.writerow(row): the row goes to the buffer of csvfile
WriteRow(row) ==
    /\ csvBuf' = Append(csvBuf, row)
    /\ UNCHANGED <<csvOs, csvDisk>>

\* csvfile.flush(), also what closing the file does
Flushed(os, buf) == os \o buf

FlushCsv ==
    /\ csvOs' = Flushed(csvOs, csvBuf)
    /\ csvBuf' = <<>>
    /\ UNCHANGED csvDisk

\* a sync that does nothing: stable storage keeps what it had
Unsynced(os, disk) == disk

\* os.fsync(csvfile.fileno())
Synced(os, disk) == os

FsyncCsv ==
    /\ csvDisk' = Synced(csvOs, csvDisk)
    /\ UNCHANGED <<csvBuf, csvOs>>

(***************************************************************************)
(* Exceptions.                                                             *)
(***************************************************************************)
CalledProcessError(cmd, answer) ==
    [kind |-> "CalledProcessError", cmd |-> cmd,
     returncode |-> answer.returncode, output |-> answer.output]
UnicodeDecodeError == [kind |-> "UnicodeDecodeError"]
IOError == [kind |-> "IOError"]
SystemExit(code) == [kind |-> "SystemExit", code |-> code]

\* str(e) of a CalledProcessError:
\* "Command '{cmd}' returned non-zero exit status {returncode}."
StrCalledProcessError(e) == [cmd |-> e.cmd, returncode |-> e.returncode]

\* except subprocess.CalledProcessError, around the invocation and the scoring
InnerCatches(e) == e.kind = "CalledProcessError"

\* the outer handlers with a bare except in place of except Exception: it
\* catches SystemExit too
OuterHandlerBare(e) ==
    IF e.kind = "IOError" THEN "except_io" ELSE "except_exc"

\* except IOError / except Exception, around the whole batch; SystemExit is
\* neither, and ends the process
OuterHandler(e) ==
    IF e.kind = "IOError" THEN "except_io"
    ELSE IF e.kind \in {"CalledProcessError", "UnicodeDecodeError", "ValueError"}
    THEN "except_exc"
    ELSE "exit"

\* raise e inside the per-item try statement
RaiseInItem(e) ==
    /\ exc' = e
    /\ IF InnerCatches(e)
       THEN pc' = "err_log" /\ UNCHANGED csv
       ELSE pc' = OuterHandler(e) /\ FlushCsv

\* raise e inside the with statement but outside the per-item try
RaiseInBatch(e) ==
    /\ exc' = e
    /\ pc' = OuterHandler(e)
    /\ FlushCsv

(***************************************************************************)
(* The batch: one action per statement of the script.                      *)
(***************************************************************************)
ligand_name == SplitExtRoot(ligand)

\* the argument list handed to subprocess.check_output
Command(name) ==
    [prog |-> "vina",
     receptor |-> RECEPTOR,
     ligand |-> PathJoin(DOCKING_DIR, name),
     out |-> PathJoin(OUTPUT_DIR, SplitExtRoot(name) \o DockedMark \o PdbqtExt),
     center_x |-> grid[1], center_y |-> grid[2], center_z |-> grid[3],
     size_x |-> grid[4], size_y |-> grid[5], size_z |-> grid[6],
     exhaustiveness |-> "8"]

\* with open(OUTPUT_CSV, 'w', newline='') as csvfile
OpenCsv ==
    /\ pc = "open_csv"
    /\ IF csvOpenable
       THEN /\ pc' = "hdr_write"
            /\ csvBuf' = <<>> /\ csvOs' = <<>> /\ csvDisk' = <<>>
            /\ UNCHANGED exc
       ELSE /\ pc' = OuterHandler(IOError)
            /\ exc' = IOError
            /\ UNCHANGED csv
    /\ UNCHANGED <<env, idx, ligand_count, ligand, vina_output, match, best_score,
                   debugLog, consoleFile, runs, exitStatus, prompt>>

\* csv_writer.writerow(["Ligand", "Best Affinity"])
WriteHeader ==
    /\ pc = "hdr_write"
    /\ WriteRow(Header)
    /\ pc' = "hdr_flush"
    /\ UNCHANGED <<env, idx, ligand_count, item, debugLog, consoleFile, runs,
                   exitStatus, prompt>>

FlushHeader ==
    /\ pc = "hdr_flush"
    /\ FlushCsv
    /\ pc' = "hdr_fsync"
    /\ UNCHANGED <<env, idx, ligand_count, item, debugLog, consoleFile, runs,
                   exitStatus, prompt>>

FsyncHeader ==
    /\ pc = "hdr_fsync"
    /\ FsyncCsv
    /\ pc' = "hdr_log"
    /\ UNCHANGED <<env, idx, ligand_count, item, debugLog, consoleFile, runs,
                   exitStatus, prompt>>

LogHeader ==
    /\ pc = "hdr_log"
    /\ WriteDebug(Line("CSV file opened and header written", <<>>))
    /\ pc' = "check_dir"
    /\ UNCHANGED <<env, idx, ligand_count, item, csv, consoleFile, runs,
                   exitStatus, prompt>>

\* if not os.path.isdir(DOCKING_DIR)
CheckDir ==
    /\ pc = "check_dir"
    /\ pc' = IF dirExists THEN "loop" ELSE "dir_err_log"
    /\ UNCHANGED <<env, idx, ligand_count, item, csv, debugLog, consoleFile, runs,
                   exitStatus, prompt>>

LogDirError ==
    /\ pc = "dir_err_log"
    /\ WriteDebug(Line("Error: Docking directory does not exist: {DOCKING_DIR}",
                       [dir |-> DOCKING_DIR]))
    /\ pc' = "sys_exit"
    /\ UNCHANGED <<env, idx, ligand_count, item, csv, consoleFile, runs,
                   exitStatus, prompt>>

\* sys.exit(1)
SysExit ==
    /\ pc = "sys_exit"
    /\ RaiseInBatch(SystemExit(1))
    /\ UNCHANGED <<env, idx, ligand_count, ligand, vina_output, match, best_score,
                   debugLog, consoleFile, runs, exitStatus, prompt>>

\* SystemExit reaches the interpreter, which exits with its code
Exit ==
    /\ pc = "exit"
    /\ exitStatus' = Exited(exc.code)
    /\ pc' = "exited"
    /\ UNCHANGED <<env, idx, ligand_count, item, csv, debugLog, consoleFile, runs,
                   prompt>>

\* for ligand in os.listdir(DOCKING_DIR): if ligand.endswith(...) and ...:
\*     ligand_count += 1
NextEntry ==
    /\ pc = "loop"
    /\ IF idx = Len(listing)
       THEN /\ pc' = "summary"
            /\ UNCHANGED <<idx, ligand, ligand_count>>
       ELSE /\ idx' = idx + 1
            /\ ligand' = listing[idx + 1]
            /\ IF IsLigandFile(listing[idx + 1])
               THEN ligand_count' = ligand_count + 1 /\ pc' = "proc_log"
               ELSE UNCHANGED ligand_count /\ pc' = "loop"
    /\ UNCHANGED <<env, vina_output, match, best_score, exc, csv, debugLog,
                   consoleFile, runs, exitStatus, prompt>>

LogProcessing ==
    /\ pc = "proc_log"
    /\ WriteDebug(Line("Processing ligand: {ligand_name}", [ligand_name |-> ligand_name]))
    /\ pc' = "invoke"
    /\ UNCHANGED <<env, idx, ligand_count, item, csv, consoleFile, runs,
                   exitStatus, prompt>>

\* vina_output = subprocess.check_output(command, stderr=STDOUT).decode('utf-8')
Invoke ==
    /\ pc = "invoke"
    /\ \E answer \in ToolAnswers :
        /\ runs' = Append(runs, [command |-> Command(ligand), answer |-> answer])
        /\ IF answer.returncode # 0
           THEN /\ RaiseInItem(CalledProcessError(Command(ligand), answer))
                /\ UNCHANGED vina_output
           ELSE IF ~answer.utf8
           THEN /\ RaiseInItem(UnicodeDecodeError)
                /\ UNCHANGED vina_output
           ELSE /\ vina_output' = answer.output
                /\ pc' = "ok_log"
                /\ UNCHANGED <<exc, csv>>
    /\ UNCHANGED <<env, idx, ligand_count, ligand, match, best_score, debugLog,
                   consoleFile, exitStatus, prompt>>

LogSuccess ==
    /\ pc = "ok_log"
    /\ WriteDebug(Line("Vina command executed successfully for {ligand_name}",
                       [ligand_name |-> ligand_name]))
    /\ pc' = "console_ok"
    /\ UNCHANGED <<env, idx, ligand_count, item, csv, consoleFile, runs,
                   exitStatus, prompt>>

\* with open(CONSOLE_OUTPUT, 'a') as console_file: three writes
AppendConsole ==
    /\ pc = "console_ok"
    /\ consoleFile' = consoleFile \o
           << Line("Docking results for {ligand_name}:\n",
                   [ligand_name |-> ligand_name]),
              Line("{vina_output}", [vina_output |-> vina_output]),
              Line("\n\n", <<>>) >>
    /\ pc' = "search"
    /\ UNCHANGED <<env, idx, ligand_count, item, csv, debugLog, runs,
                   exitStatus, prompt>>

\* match = re.search(...); if match:
Search ==
    /\ pc = "search"
    /\ match' = ReSearch(vina_output)
    /\ pc' = IF match'.found THEN "convert" ELSE "na_log"
    /\ UNCHANGED <<env, idx, ligand_count, ligand, vina_output, best_score, exc,
                   csv, debugLog, consoleFile, runs, exitStatus, prompt>>

\* best_score = float(match.group(1))
Convert ==
    /\ pc = "convert"
    /\ LET v == ParseFloat(match.group1)
       IN  IF v = ValueError
           THEN RaiseInItem(ValueError) /\ UNCHANGED best_score
           ELSE /\ best_score' = v
                /\ pc' = "score_write"
                /\ UNCHANGED <<exc, csv>>
    /\ UNCHANGED <<env, idx, ligand_count, ligand, vina_output, match, debugLog,
                   consoleFile, runs, exitStatus, prompt>>

\* csv_writer.writerow([ligand_name, best_score])
ScoreRow(name, score) == <<name, FloatStr(score)>>

WriteScoreRow ==
    /\ pc = "score_write"
    /\ WriteRow(ScoreRow(ligand_name, best_score))
    /\ pc' = "score_flush"
    /\ UNCHANGED <<env, idx, ligand_count, item, debugLog, consoleFile, runs,
                   exitStatus, prompt>>

FlushScore ==
    /\ pc = "score_flush"
    /\ FlushCsv
    /\ pc' = "score_fsync"
    /\ UNCHANGED <<env, idx, ligand_count, item, debugLog, consoleFile, runs,
                   exitStatus, prompt>>

FsyncScore ==
    /\ pc = "score_fsync"
    /\ FsyncCsv
    /\ pc' = "score_log"
    /\ UNCHANGED <<env, idx, ligand_count, item, debugLog, consoleFile, runs,
                   exitStatus, prompt>>

LogWritten ==
    /\ pc = "score_log"
    /\ WriteDebug(Line("Written to CSV: {ligand_name}, {best_score}",
                       [ligand_name |-> ligand_name,
                        best_score |-> FloatStr(best_score)]))
    /\ pc' = "loop"
    /\ UNCHANGED <<env, idx, ligand_count, item, csv, consoleFile, runs,
                   exitStatus, prompt>>

LogNoScore ==
    /\ pc = "na_log"
    /\ WriteDebug(Line("Could not find best affinity score for {ligand_name}",
                       [ligand_name |-> ligand_name]))
    /\ pc' = "na_write"
    /\ UNCHANGED <<env, idx, ligand_count, item, csv, consoleFile, runs,
                   exitStatus, prompt>>

\* the N/A row written with the marker of the other failure tier
NARowAsError(name) == <<name, ErrorMark>>

\* csv_writer.writerow([ligand_name, "N/A"])
NARow(name) == <<name, NA>>

WriteNARow ==
    /\ pc = "na_write"
    /\ WriteRow(NARow(ligand_name))
    /\ pc' = "na_flush"
    /\ UNCHANGED <<env, idx, ligand_count, item, debugLog, consoleFile, runs,
                   exitStatus, prompt>>

FlushNA ==
    /\ pc = "na_flush"
    /\ FlushCsv
    /\ pc' = "na_fsync"
    /\ UNCHANGED <<env, idx, ligand_count, item, debugLog, consoleFile, runs,
                   exitStatus, prompt>>

FsyncNA ==
    /\ pc = "na_fsync"
    /\ FsyncCsv
    /\ pc' = "loop"
    /\ UNCHANGED <<env, idx, ligand_count, item, debugLog, consoleFile, runs,
                   exitStatus, prompt>>

\* except subprocess.CalledProcessError as e:
LogToolError ==
    /\ pc = "err_log"
    /\ WriteDebug(Line("Error occurred while docking {ligand_name}: {e}",
                       [ligand_name |-> ligand_name]
                           @@ StrCalledProcessError(exc)))
    /\ pc' = "err_console"
    /\ UNCHANGED <<env, idx, ligand_count, item, csv, consoleFile, runs,
                   exitStatus, prompt>>

ConsoleError ==
    /\ pc = "err_console"
    /\ consoleFile' = Append(consoleFile,
           Line("Error docking {ligand_name}: {e}\n\n",
                [ligand_name |-> ligand_name] @@ StrCalledProcessError(exc)))
    /\ pc' = "err_write"
    /\ UNCHANGED <<env, idx, ligand_count, item, csv, debugLog, runs,
                   exitStatus, prompt>>

\* csv_writer.writerow([ligand_name, "Error"])
ErrorRow(name) == <<name, ErrorMark>>

WriteErrorRow ==
    /\ pc = "err_write"
    /\ WriteRow(ErrorRow(ligand_name))
    /\ pc' = "err_flush"
    /\ UNCHANGED <<env, idx, ligand_count, item, debugLog, consoleFile, runs,
                   exitStatus, prompt>>

FlushError ==
    /\ pc = "err_flush"
    /\ FlushCsv
    /\ pc' = "err_fsync"
    /\ UNCHANGED <<env, idx, ligand_count, item, debugLog, consoleFile, runs,
                   exitStatus, prompt>>

FsyncError ==
    /\ pc = "err_fsync"
    /\ FsyncCsv
    /\ pc' = "loop"
    /\ UNCHANGED <<env, idx, ligand_count, item, debugLog, consoleFile, runs,
                   exitStatus, prompt>>

\* write_debug(f"Processed {ligand_count} ligands"), then the with statement
\* closes csvfile
LogSummary ==
    /\ pc = "summary"
    /\ WriteDebug(Line("Processed {ligand_count} ligands", [ligand_count |-> ligand_count]))
    /\ FlushCsv
    /\ pc' = "final_log"
    /\ UNCHANGED <<env, idx, ligand_count, item, consoleFile, runs,
                   exitStatus, prompt>>

\* except IOError as e:
HandleIOError ==
    /\ pc = "except_io"
    /\ WriteDebug(Line("Error opening or writing to CSV file: {e}", [e |-> exc.kind]))
    /\ pc' = "final_log"
    /\ UNCHANGED <<env, idx, ligand_count, item, csv, consoleFile, runs,
                   exitStatus, prompt>>

\* except Exception as e:
HandleException ==
    /\ pc = "except_exc"
    /\ WriteDebug(Line("Unexpected error: {e}", [e |-> exc.kind]))
    /\ pc' = "final_log"
    /\ UNCHANGED <<env, idx, ligand_count, item, csv, consoleFile, runs,
                   exitStatus, prompt>>

\* write_debug(f"Script completed. ..."), and the script ends
LogCompleted ==
    /\ pc = "final_log"
    /\ WriteDebug(Line("Script completed. Check {OUTPUT_CSV} for results.",
                       [OUTPUT_CSV |-> OUTPUT_CSV]))
    /\ exitStatus' = Exited(0)
    /\ pc' = "exited"
    /\ UNCHANGED <<env, idx, ligand_count, item, csv, consoleFile, runs, prompt>>

Next ==
    \/ OpenCsv \/ WriteHeader \/ FlushHeader \/ FsyncHeader \/ LogHeader
    \/ CheckDir \/ LogDirError \/ SysExit \/ Exit
    \/ NextEntry \/ LogProcessing \/ Invoke \/ LogSuccess \/ AppendConsole
    \/ Search \/ Convert
    \/ WriteScoreRow \/ FlushScore \/ FsyncScore \/ LogWritten
    \/ LogNoScore \/ WriteNARow \/ FlushNA \/ FsyncNA
    \/ LogToolError \/ ConsoleError \/ WriteErrorRow \/ FlushError \/ FsyncError
    \/ LogSummary \/ HandleIOError \/ HandleException \/ LogCompleted

Spec == Init /\ [][Next]_vars

(***************************************************************************)
(* The batch under external termination.  The process may be killed        *)
(* before any statement; the operating system may write the pages it       *)
(* holds back to stable storage at any time.  A killed process keeps its   *)
(* position in pc, for reference; it takes no further step.                *)
(***************************************************************************)
Killed == [kind |-> "killed"]

Kill ==
    /\ exitStatus = None
    /\ pc # "exited"
    /\ exitStatus' = Killed
    /\ UNCHANGED <<pc, env, idx, ligand_count, item, csv, debugLog, consoleFile,
                   runs, prompt>>

Writeback ==
    /\ csvDisk # csvOs
    /\ csvDisk' = csvOs
    /\ UNCHANGED <<pc, env, idx, ligand_count, item, csvBuf, csvOs, debugLog,
                   consoleFile, runs, exitStatus, prompt>>

NextCrash == (exitStatus = None /\ Next) \/ Kill \/ Writeback

SpecCrash == Init /\ [][NextCrash]_vars

(***************************************************************************)
(* The score extraction alone, over every tool output text of at most      *)
(* MaxLen characters: the script has run vina on one ligand, which exited  *)
(* 0, and is about to search its output.                                   *)
(***************************************************************************)
OutputAlphabet == {"1", "0", "-", ".", " ", "\n", "x"}

OutputTexts == UNION {[1..n -> OutputAlphabet] : n \in 0..MaxLen}

InitExtract ==
    /\ pc = "search"
    /\ dirExists = TRUE
    /\ csvOpenable = TRUE
    /\ listing = <<Name_a>>
    /\ grid = [k \in 1..6 |-> <<"0", ".", "0">>]
    /\ idx = 1
    /\ ligand = Name_a
    /\ ligand_count = 1
    /\ vina_output \in OutputTexts
    /\ match = None
    /\ best_score = None
    /\ exc = None
    /\ csvBuf = <<>>
    /\ csvOs = <<Header>>
    /\ csvDisk = <<Header>>
    /\ debugLog =
           << GridLine(grid),
              Line("CSV file opened and header written", <<>>),
              Line("Processing ligand: {ligand_name}",
                   [ligand_name |-> ligand_name]),
              Line("Vina command executed successfully for {ligand_name}",
                   [ligand_name |-> ligand_name]) >>
    /\ consoleFile =
           << Line("Docking results for {ligand_name}:\n",
                   [ligand_name |-> ligand_name]),
              Line("{vina_output}", [vina_output |-> vina_output]),
              Line("\n\n", <<>>) >>
    /\ runs = << [command |-> Command(Name_a),
                  answer |-> [returncode |-> 0, output |-> vina_output,
                              utf8 |-> TRUE]] >>
    /\ exitStatus = None
    /\ typed = <<>>
    /\ answered = TRUE
    /\ outDirExists = TRUE
    /\ runNo = 1
    /\ priorLog = <<>>

NextExtract == Search \/ Convert

SpecExtract == InitExtract /\ [][NextExtract]_vars

(***************************************************************************)
(* The grid-box prompt: six calls of get_grid_coordinate, then the audit   *)
(* line.                                                                   *)
(***************************************************************************)
In_empty == <<>>
In_space == <<" ">>
In_x == <<"x">>
In_15x == <<"1", ".", "5", "x">>
In_m25 == <<" ", "-", "2", ".", "5", "0">>
In_nan == <<"n", "a", "n">>

OperatorInputs == {In_empty, In_space, In_x, In_15x, In_m25, In_nan}

\* the loop body with the blank test on the raw input instead of its strip()
GridAnswerNoStrip(user_input) ==
    IF user_input = <<>> THEN <<"0", ".", "0">>
    ELSE LET v == ParseFloat(user_input)
         IN  IF v = ValueError THEN None ELSE FloatStr(v)

\* one pass of the while loop of get_grid_coordinate on user_input: the value
\* returned, or None when the input is rejected and the loop goes round
GridAnswer(user_input) ==
    IF Strip(user_input) = <<>> THEN <<"0", ".", "0">>
    ELSE LET v == ParseFloat(user_input)
         IN  IF v = ValueError THEN None ELSE FloatStr(v)

InitPrompt ==
    /\ pc = "prompt"
    /\ dirExists = TRUE
    /\ csvOpenable = TRUE
    /\ listing = <<>>
    /\ grid = <<>>
    /\ idx = 0
    /\ ligand = <<>>
    /\ ligand_count = 0
    /\ vina_output = <<>>
    /\ match = None
    /\ best_score = None
    /\ exc = None
    /\ csvBuf = <<>>
    /\ csvOs = <<>>
    /\ csvDisk = <<>>
    /\ debugLog = <<>>
    /\ consoleFile = <<>>
    /\ runs = <<>>
    /\ exitStatus = None
    /\ typed = <<>>
    /\ answered = TRUE
    /\ outDirExists = TRUE
    /\ runNo = 1
    /\ priorLog = <<>>

\* user_input = input(f"{prompt}: ") and the rest of the loop body, the
\* operator typing one of inputs
ReadInputOf(inputs) ==
    /\ pc = "prompt"
    /\ Len(grid) < 6
    /\ \E user_input \in inputs :
        LET r == GridAnswer(user_input)
            before == IF answered THEN <<>> ELSE typed
        IN  /\ typed' = Append(before, user_input)
            /\ IF r = None
               THEN /\ Len(before) < MaxRetries
                    /\ answered' = FALSE
                    /\ UNCHANGED grid
               ELSE /\ answered' = TRUE
                    /\ grid' = Append(grid, r)
    /\ UNCHANGED <<pc, dirExists, csvOpenable, listing, idx, ligand_count, item,
                   csv, debugLog, consoleFile, runs, exitStatus, outDirExists,
                   runNo, priorLog>>

ReadInput == ReadInputOf(OperatorInputs)

\* write_debug(f"Grid box settings: ...")
LogGrid ==
    /\ pc = "prompt"
    /\ Len(grid) = 6
    /\ WriteDebug(GridLine(grid))
    /\ pc' = "open_csv"
    /\ UNCHANGED <<env, idx, ligand_count, item, csv, consoleFile, runs,
                   exitStatus, prompt>>

NextPrompt == ReadInput \/ LogGrid

SpecPrompt == InitPrompt /\ [][NextPrompt]_vars

(***************************************************************************)
(* The script started again and again on the same files: each run goes     *)
(* from the first statement to its end or to the point where it is killed; *)
(* the files keep what the run left in them.  The operator accepts the     *)
(* default at every grid prompt.                                           *)
(***************************************************************************)
MaxRuns == 2

RunListings == {<<>>, <<Name_a>>}

RunInputs == {In_empty}

\* if not os.path.exists(OUTPUT_DIR): os.makedirs(OUTPUT_DIR)
MakeOutputDir ==
    /\ pc = "make_dir"
    /\ IF outDirExists
       THEN pc' = "clear_console" /\ UNCHANGED outDirExists
       ELSE pc' = "out_dir_log" /\ outDirExists' = TRUE
    /\ UNCHANGED <<dirExists, csvOpenable, listing, grid, runNo, priorLog, idx,
                   ligand_count, item, csv, debugLog, consoleFile, runs,
                   exitStatus, prompt>>

\* write_debug(f"Created output directory: {OUTPUT_DIR}")
LogOutputDir ==
    /\ pc = "out_dir_log"
    /\ WriteDebug(Line("Created output directory: {OUTPUT_DIR}",
                       [OUTPUT_DIR |-> OUTPUT_DIR]))
    /\ pc' = "clear_console"
    /\ UNCHANGED <<env, idx, ligand_count, item, csv, consoleFile, runs,
                   exitStatus, prompt>>

\* a file opened for writing that keeps what it held
Kept(file) == file

\* what a file holds after open(path, 'w')
Truncated(file) == <<>>

\* with open(CONSOLE_OUTPUT, 'w') as console_file: pass
ClearConsole ==
    /\ pc = "clear_console"
    /\ consoleFile' = Truncated(consoleFile)
    /\ pc' = "prompt"
    /\ UNCHANGED <<env, idx, ligand_count, item, csv, debugLog, runs,
                   exitStatus, prompt>>

InitRuns ==
    /\ pc = "make_dir"
    /\ dirExists \in BOOLEAN
    /\ csvOpenable \in BOOLEAN
    /\ listing \in (IF dirExists THEN RunListings ELSE {<<>>})
    /\ grid = <<>>
    /\ idx = 0
    /\ ligand = <<>>
    /\ ligand_count = 0
    /\ vina_output = <<>>
    /\ match = None
    /\ best_score = None
    /\ exc = None
    /\ csvBuf = <<>>
    /\ csvOs = <<>>
    /\ csvDisk = <<>>
    /\ debugLog = <<>>
    /\ consoleFile = <<>>
    /\ runs = <<>>
    /\ exitStatus = None
    /\ typed = <<>>
    /\ answered = TRUE
    /\ outDirExists \in BOOLEAN
    /\ runNo = 1
    /\ priorLog = <<>>

\* the script is started once more, after it has ended or was killed: a new
\* process, the files as they are
Restart ==
    /\ pc = "exited" \/ exitStatus = Killed
    /\ runNo < MaxRuns
    /\ runNo' = runNo + 1
    /\ priorLog' = debugLog
    /\ pc' = "make_dir"
    /\ dirExists' \in BOOLEAN
    /\ csvOpenable' \in BOOLEAN
    /\ listing' \in (IF dirExists' THEN RunListings ELSE {<<>>})
    /\ grid' = <<>>
    /\ idx' = 0
    /\ ligand' = <<>>
    /\ ligand_count' = 0
    /\ vina_output' = <<>>
    /\ match' = None
    /\ best_score' = None
    /\ exc' = None
    /\ csvBuf' = <<>>
    /\ runs' = <<>>
    /\ exitStatus' = None
    /\ typed' = <<>>
    /\ answered' = TRUE
    /\ UNCHANGED <<csvOs, csvDisk, debugLog, consoleFile, outDirExists>>

NextRuns ==
    \/ /\ exitStatus = None
       /\ \/ MakeOutputDir \/ LogOutputDir \/ ClearConsole
          \/ ReadInputOf(RunInputs) \/ LogGrid
          \/ Next
    \/ Kill
    \/ Writeback
    \/ Restart

SpecRuns == InitRuns /\ [][NextRuns]_vars

(***************************************************************************)
(* Vocabulary of the properties.                                           *)
(***************************************************************************)
\* the rows handed to csv_writer so far, in order
Table == csvOs \o csvBuf

DataRows == IF Table = <<>> THEN <<>> ELSE Tail(Table)

\* a name that ends with .pdbqt and holds _docked nowhere, position by position
NamesLigand(n) ==
    /\ Len(n) >= 6
    /\ \A k \in 1..6 : n[Len(n) - 6 + k] = PdbqtExt[k]
    /\ ~\E i \in 1..Len(n) :
           \A k \in 1..7 : i + k - 1 <= Len(n) /\ n[i + k - 1] = DockedMark[k]

\* the discovered work items, in discovery order
WorkItems == SelectSeq(listing, NamesLigand)

Ended == pc = "exited"

\* the run got past setup: the table was opened and the directory exists
PastSetup == csvOpenable /\ dirExists

\* C1: when a run in which the ligand directory exists and the table was
\* opened ends, the table holds the header and then exactly one data row per
\* discovered work item, in discovery order, whatever vina answered.
C1_RowCompleteness ==
    (Ended /\ PastSetup) =>
        /\ Len(csvOs) = 1 + Len(WorkItems)
        /\ csvOs[1] = Header
        /\ \A k \in 1..Len(WorkItems) :
               csvOs[k + 1][1] = SplitExtRoot(WorkItems[k])

\* C2: a failure while one work item is processed never aborts the batch:
\* the outer handlers are reached only before any item was invoked, and when
\* the run ends every invoked item has its row and every discovered work item
\* was invoked.
C2_FailureIsolation ==
    /\ pc \in {"except_io", "except_exc", "exit"} => runs = <<>>
    /\ Ended =>
        /\ Len(DataRows) = Len(runs)
        /\ PastSetup => Len(runs) = Len(WorkItems)

\* C5: the process exits non-zero exactly when the ligand directory is
\* missing or the table cannot be opened; otherwise it exits zero, having
\* gone through every discovered item.
C5_ExitStatus ==
    Ended =>
        /\ exitStatus.code # 0 <=> ~PastSetup
        /\ exitStatus.code = 0 => idx = Len(listing) /\ Len(runs) = Len(WorkItems)

LastLine == debugLog[Len(debugLog)]

\* C6: when setup fails (directory missing, table cannot be opened), the line
\* that logs the failure is the last line of the run log, and no vina
\* invocation and no data row follows it.
C6_FatalLogLast ==
    (Ended /\ ~PastSetup) =>
        /\ LastLine.msg \in {"Error: Docking directory does not exist: {DOCKING_DIR}",
                             "Error opening or writing to CSV file: {e}"}
        /\ runs = <<>>
        /\ DataRows = <<>>

\* C7: once the handler of a vina failure has logged, the audit log holds a
\* line with the exit code and the output vina produced, and the console
\* mirror file holds that output.
C7_ToolFailureDiagnostics ==
    pc \in {"err_write", "err_flush", "err_fsync"} =>
        /\ \E i \in DOMAIN debugLog :
               /\ debugLog[i].msg = "Error occurred while docking {ligand_name}: {e}"
               /\ debugLog[i].args.ligand_name = ligand_name
               /\ debugLog[i].args.returncode = exc.returncode
               /\ exc.output # <<>> =>
                      /\ "output" \in DOMAIN debugLog[i].args
                      /\ debugLog[i].args.output = exc.output
        /\ exc.output # <<>> =>
               \E i \in DOMAIN consoleFile :
                   /\ "output" \in DOMAIN consoleFile[i].args
                   /\ consoleFile[i].args.output = exc.output

\* a table cell that reads as a finite number
IsNumberText(cell) == ParseFloat(cell).kind = "fin"

\* the directory entry the k-th invocation was given
RunEntry(k) ==
    CHOOSE n \in {listing[j] : j \in 1..Len(listing)} :
        runs[k].command.ligand = PathJoin(DOCKING_DIR, n)

\* C3: the second column of every data row is exactly one of a number, N/A
\* and Error, and it is the one that matches what vina answered for that
\* item: Error iff vina exited non-zero, N/A iff it exited 0 and no score
\* line was found, the score iff it exited 0 and a score was extracted.
C3_MarkerExclusivity ==
    \A k \in 1..Len(DataRows) :
        LET cell == DataRows[k][2]
            a == runs[k].answer
            m == ReSearch(a.output)
        IN  /\ DataRows[k][1] = SplitExtRoot(RunEntry(k))
            /\ Cardinality({t \in {"Error", "N/A", "number"} :
                   \/ t = "Error" /\ cell = ErrorMark
                   \/ t = "N/A" /\ cell = NA
                   \/ t = "number" /\ IsNumberText(cell)}) = 1
            /\ a.returncode # 0 <=> cell = ErrorMark
            /\ (a.returncode = 0 /\ ~m.found) <=> cell = NA
            /\ (a.returncode = 0 /\ m.found) <=> IsNumberText(cell)
            /\ IsNumberText(cell) => ParseFloat(cell) = ParseFloat(m.group1)

\* C3 witness: a table with an Error row, and then a score row written in
\* exponent notation
C3_Witness ==
    /\ Len(DataRows) = 2
    /\ DataRows[1][2] = ErrorMark
    /\ DataRows[2][2] = <<"1", "e", "-", "0", "5">>

\* C3 witness of the N/A case
C3_WitnessNA ==
    /\ Len(DataRows) = 2
    /\ DataRows[1][2] = <<"-", "7", ".", "4">>
    /\ DataRows[2][2] = NA

IsPrefix(s, t) == Len(s) <= Len(t) /\ SubSeq(t, 1, Len(s)) = s

\* the statements between a writerow and the return of the fsync after it
RowInFlight ==
    pc \in {"hdr_flush", "hdr_fsync", "score_flush", "score_fsync",
            "na_flush", "na_fsync", "err_flush", "err_fsync"}

\* C4: at every point where the process may be killed, stable storage holds a
\* prefix of the rows written so far (header first) that lacks at most the
\* last one, and lacks none unless that row's flush and sync are still under
\* way.
C4_Durability ==
    /\ IsPrefix(csvDisk, Table)
    /\ Len(Table) - Len(csvDisk) <= 1
    /\ ~RowInFlight => csvDisk = Table

\* C4 witness: killed between the flush and the sync of the second data row;
\* the header and the first data row are on stable storage
C4_Witness ==
    /\ exitStatus = Killed
    /\ pc = "score_fsync"
    /\ Len(Table) = 3
    /\ csvDisk = SubSeq(Table, 1, 2)

Invoked(n) ==
    \E k \in 1..Len(runs) : runs[k].command.ligand = PathJoin(DOCKING_DIR, n)

\* C9: of the entries the loop has taken, exactly those whose name ends with
\* .pdbqt and holds no _docked are counted and handed to vina (the one being
\* started is about to be); no other entry has an invocation or a row.
C9_FilterCorrectness ==
    /\ ligand_count = Cardinality({k \in 1..idx : NamesLigand(listing[k])})
    /\ \A k \in 1..idx :
           NamesLigand(listing[k]) <=>
               \/ Invoked(listing[k])
               \/ k = idx /\ pc \in {"proc_log", "invoke"}
    /\ Len(runs) <= ligand_count
    /\ \A k \in 1..Len(DataRows) :
           \E j \in 1..idx :
               /\ NamesLigand(listing[j])
               /\ DataRows[k][1] = SplitExtRoot(listing[j])

\* C9 witness: an already-docked file was passed over, and the ligand after
\* it was docked and has its row
C9_Witness ==
    /\ listing = <<Name_a_docked, Name_a>>
    /\ idx = 2
    /\ ligand_count = 1
    /\ Len(runs) = 1
    /\ Len(DataRows) = 1
    /\ pc = "loop"

\* the positions of vina_output at which a line starts
LineStarts(s) == {p \in 1..(Len(s) + 1) : p = 1 \/ s[p - 1] = "\n"}

\* the line of s that starts at p, without its newline
LineAt(s, p) ==
    LET stops == {q \in p..Len(s) : s[q] = "\n"}
        end == IF stops = {} THEN Len(s) + 1
               ELSE CHOOSE q \in stops : \A r \in stops : q <= r
    IN  SubSeq(s, p, end - 1)

\* an optional minus sign, then digits with at most one point among them
IsSignedDecimal(t) ==
    LET u == IF t # <<>> /\ t[1] = "-" THEN Tail(t) ELSE t
    IN  /\ \A k \in 1..Len(u) : IsDigit(u[k]) \/ u[k] = "."
        /\ Cardinality({k \in 1..Len(u) : u[k] = "."}) <= 1
        /\ \E k \in 1..Len(u) : IsDigit(u[k])

\* the ways to read line as: whitespace, the rank marker 1, whitespace, a
\* signed decimal number (the whole run of sign, digit and point characters)
ScoreReadings(line) ==
    {r \in (0..Len(line)) \X (1..Len(line)) \X (1..Len(line)) :
        LET i == r[1]
            j == r[2]
            k == r[3]
        IN  /\ i + 2 < j /\ j <= k
            /\ \A m \in 1..i : IsSpace(line[m])
            /\ line[i + 1] = "1"
            /\ \A m \in (i + 2)..(j - 1) : IsSpace(line[m])
            /\ \A m \in j..k : InScoreClass(line[m])
            /\ k = Len(line) \/ ~InScoreClass(line[k + 1])
            /\ IsSignedDecimal(SubSeq(line, j, k))}

ScoreOfLine(line) ==
    LET r == CHOOSE r \in ScoreReadings(line) : TRUE
    IN  ParseFloat(SubSeq(line, r[2], r[3]))

\* C8: on the output of a successful invocation the extractor ends in one of
\* two ways: Scored(v), v being the signed decimal number after the rank
\* marker 1 and whitespace on the first line of that form, or Unparseable,
\* exactly when no line has that form.
C8_ExtractionCorrectness ==
    pc \in {"score_write", "na_log", "except_exc"} =>
        LET good == {p \in LineStarts(vina_output) :
                        ScoreReadings(LineAt(vina_output, p)) # {}}
            first == CHOOSE p \in good : \A q \in good : p <= q
        IN  /\ pc # "except_exc"
            /\ good = {} <=> pc = "na_log"
            /\ good # {} =>
                   /\ pc = "score_write"
                   /\ best_score = ScoreOfLine(LineAt(vina_output, first))

\* what each operator input must resolve to, and the inputs that must be
\* rejected
ExpectedAnswer ==
    In_empty :> <<"0", ".", "0">> @@ In_space :> <<"0", ".", "0">>
    @@ In_m25 :> <<"-", "2", ".", "5">> @@ In_nan :> <<"n", "a", "n">>

RejectedInputs == {In_x, In_15x}

\* C10: at a grid prompt every input before the last was rejected as
\* non-numeric; the prompt returns at the first blank input (0.0) or numeric
\* input (that number), never a value of a rejected input; all six
\* parameters are resolved, one prompt at a time, before the script goes on.
C10_GridPrompt ==
    /\ \A k \in 1..(Len(typed) - 1) : typed[k] \in RejectedInputs
    /\ typed # <<>> =>
           LET last == typed[Len(typed)]
           IN  IF answered
               THEN /\ last \in DOMAIN ExpectedAnswer
                    /\ Len(grid) >= 1
                    /\ grid[Len(grid)] = ExpectedAnswer[last]
               ELSE last \in RejectedInputs
    /\ \A k \in 1..Len(grid) :
           \E u \in DOMAIN ExpectedAnswer : grid[k] = ExpectedAnswer[u]
    /\ ~answered => Len(grid) < 6
    /\ pc = "open_csv" => Len(grid) = 6 /\ answered

\* C10 witness: the second prompt rejected two inputs and then took a blank
\* one as 0.0, after the first prompt had returned -2.5
C10_Witness ==
    /\ typed = <<In_15x, In_x, In_space>>
    /\ answered
    /\ grid = << <<"-", "2", ".", "5">>, <<"0", ".", "0">> >>

\* the six grid values, as the command line of an invocation carries them
GridOfCommand(c) ==
    <<c.center_x, c.center_y, c.center_z, c.size_x, c.size_y, c.size_z>>

\* C11: every grid parameter the prompts have resolved reads as a finite
\* number, whatever the operator typed (nan and inf included), and every vina
\* invocation is handed exactly the six resolved values.
C11_ConfigInvariant ==
    /\ \A k \in 1..Len(grid) : IsNumberText(grid[k])
    /\ \A k \in 1..Len(runs) :
           GridOfCommand(runs[k].command) = [j \in 1..6 |-> grid[j]]

\* the statements before the prompts: the script has not yet cleared the
\* console mirror file
BeforePrompts == pc \in {"make_dir", "out_dir_log", "clear_console"}

\* the statements up to the open of the table
BeforeOpen == BeforePrompts \/ pc \in {"prompt", "open_csv"}

\* the console mirror file holds pieces of this run's invocations only
ConsoleOfThisRun ==
    /\ Len(consoleFile) <= 3 * Len(runs)
    /\ \A i \in DOMAIN consoleFile :
           "ligand_name" \in DOMAIN consoleFile[i].args =>
               \E k \in 1..Len(runs) :
                   consoleFile[i].args.ligand_name = SplitExtRoot(RunEntry(k))

\* the table holds rows of this run's invocations only, after the header
TableOfThisRun ==
    /\ Table # <<>> => Table[1] = Header
    /\ Len(DataRows) <= Len(runs)
    /\ \A k \in 1..Len(DataRows) : DataRows[k][1] = SplitExtRoot(RunEntry(k))
    /\ IsPrefix(csvDisk, Table)

\* C12 as stated: from the start of every run (the statements before the
\* prompts done) the console mirror file and the results table hold nothing
\* of earlier runs, and the debug log still begins with all it held when the
\* run started.
C12_RecreatedAtStart ==
    /\ IsPrefix(priorLog, debugLog)
    /\ ~BeforePrompts => ConsoleOfThisRun /\ TableOfThisRun

\* C12, amended: the console mirror file holds nothing of earlier runs from
\* the start of the run on; the results table holds nothing of earlier runs
\* once this run has opened it, which it does after the grid prompts; the
\* debug log still begins with all it held when the run started.
C12_FileLifecycle ==
    /\ IsPrefix(priorLog, debugLog)
    /\ ~BeforePrompts => ConsoleOfThisRun
    /\ (csvOpenable /\ ~BeforeOpen) => TableOfThisRun

\* C12 witness: a second run has docked one ligand and written its row; the
\* run before it had written a score row and logged it
C12_Witness ==
    /\ runNo = 2
    /\ pc = "loop"
    /\ Len(DataRows) = 1
    /\ Len(consoleFile) = 3
    /\ \E i \in DOMAIN priorLog :
           priorLog[i].msg = "Written to CSV: {ligand_name}, {best_score}"

\* the lines that log the outcome of an item
OutcomeMsgs ==
    {"Written to CSV: {ligand_name}, {best_score}",
     "Could not find best affinity score for {ligand_name}",
     "Error occurred while docking {ligand_name}: {e}"}

OutcomeLines == {i \in DOMAIN debugLog : debugLog[i].msg \in OutcomeMsgs}

\* the data rows on stable storage
CommittedRows == IF csvDisk = <<>> THEN <<>> ELSE Tail(csvDisk)

\* C13: no work item is handed to vina twice; when a run that got past setup
\* ends, every discovered work item was handed to vina; an invocation begins
\* only when every earlier invocation has its committed row and its outcome
\* line; and the outcome line of an item is logged after its row is
\* committed (invoke, extract, commit row, log).
C13_ExactlyOnceSequential ==
    /\ \A j, k \in 1..Len(runs) :
           runs[j].command.ligand = runs[k].command.ligand => j = k
    /\ (Ended /\ PastSetup) => \A k \in 1..Len(WorkItems) : Invoked(WorkItems[k])
    /\ pc = "invoke" =>
           /\ Len(CommittedRows) = Len(runs)
           /\ Cardinality(OutcomeLines) = Len(runs)
    /\ Cardinality(OutcomeLines) <= Len(CommittedRows)

SummaryLines ==
    {i \in DOMAIN debugLog : debugLog[i].msg = "Processed {ligand_count} ligands"}

\* the statements of the for loop: its head and its body
InLoop ==
    pc \in {"loop", "proc_log", "invoke", "ok_log", "console_ok", "search",
            "convert", "score_write", "score_flush", "score_fsync", "score_log",
            "na_log", "na_write", "na_flush", "na_fsync",
            "err_log", "err_console", "err_write", "err_flush", "err_fsync"}

\* an item is in flight: the loop has counted it and the sync of its row has
\* not yet returned
ItemInFlight == InLoop /\ pc \notin {"loop", "score_log"}

\* C14: every "Processed N ligands" line in the log carries the number of
\* discovered work items, which is the number of data rows in the table;
\* inside the loop ligand_count is the number of committed data rows, plus
\* one while an item is in flight.
C14_SummaryCount ==
    /\ \A i \in SummaryLines :
           /\ debugLog[i].args.ligand_count = Len(WorkItems)
           /\ debugLog[i].args.ligand_count = Len(DataRows)
    /\ InLoop =>
           ligand_count = Len(CommittedRows) + (IF ItemInFlight THEN 1 ELSE 0)

\* C14 witness: the run has ended after the summary line "Processed 2
\* ligands", with an Error row and an N/A row in the table
C14_Witness ==
    /\ Ended
    /\ \E i \in SummaryLines : debugLog[i].args.ligand_count = 2
    /\ Len(DataRows) = 2
    /\ DataRows[1][2] = ErrorMark
    /\ DataRows[2][2] = NA

\* C15: when the ligand directory is missing (and the table could be
\* opened), the header is on stable storage before the error is logged; when
\* the run ends the table holds the header alone, vina was never run, the
\* log holds the error line that names the directory, and holds neither a
\* "Processed N ligands" line nor the "Script completed" line.
C15_MissingDirectory ==
    (csvOpenable /\ ~dirExists) =>
        /\ pc \in {"dir_err_log", "sys_exit", "exit", "exited"} =>
               /\ csvDisk = <<Header>>
               /\ Table = <<Header>>
               /\ runs = <<>>
        /\ pc \in {"sys_exit", "exit", "exited"} =>
               \E i \in DOMAIN debugLog :
                   /\ debugLog[i].msg =
                          "Error: Docking directory does not exist: {DOCKING_DIR}"
                   /\ debugLog[i].args.dir = DOCKING_DIR
        /\ SummaryLines = {}
        /\ \A i \in DOMAIN debugLog :
               debugLog[i].msg # "Script completed. Check {OUTPUT_CSV} for results."
        /\ pc \notin {"loop", "summary", "final_log", "except_io", "except_exc"}

\* C15 witness: a run that found no ligand directory has ended
C15_Witness ==
    /\ Ended
    /\ csvOpenable /\ ~dirExists
    /\ exitStatus = Exited(1)
    /\ csvDisk = <<Header>>

WrittenLines ==
    {i \in DOMAIN debugLog :
        debugLog[i].msg = "Written to CSV: {ligand_name}, {best_score}"}

\* the table on stable storage has the data row that line i of the log names
RowOnDisk(i) ==
    \E k \in 2..Len(csvDisk) :
        csvDisk[k] = <<debugLog[i].args.ligand_name, debugLog[i].args.best_score>>

\* C16 as stated: in every state, killed ones included, every "Written to
\* CSV: <ligand>, <score>" line the debug log holds has its row on stable
\* storage in the results table.
C16_LogNeverAhead == \A i \in WrittenLines : RowOnDisk(i)

\* C16, amended: in every state, killed ones included, every "Written to
\* CSV: <ligand>, <score>" line that the current run has appended to the
\* debug log has its row on stable storage in the results table.
C16_LogNeverAheadOfRun ==
    \A i \in WrittenLines : i > Len(priorLog) => RowOnDisk(i)

\* C16 witness: a second run was killed right after it logged a score row,
\* which is on stable storage; the log holds such a line of the first run too
C16_Witness ==
    /\ runNo = 2
    /\ exitStatus = Killed
    /\ pc = "loop"
    /\ \E i \in WrittenLines : i > Len(priorLog) /\ RowOnDisk(i)
    /\ \E i \in WrittenLines : i <= Len(priorLog)

====
